---- MODULE Spec2Model ----
(***************************************************************************)
(* Model of app.py, the 2D shirt pattern generator: the five pattern       *)
(* builders, plot_pattern with its seam-allowance outline, the DXF         *)
(* serializer, the ZIP exporter and the Streamlit script (upload handling  *)
(* and the "Generate Patterns" handler).                                   *)
(*                                                                         *)
(* Numbers.  A Python number is a record [v, fl]: v is the value in units  *)
(* of 1/Scale cm (every quotient the program forms on the modelled inputs  *)
(* is exact at this scale), fl tells a float from an int.  Binary rounding *)
(* of floats is not modelled: the arithmetic is that of the reals.         *)
(* Python lists are sequences; Python index i is sequence index i + 1.     *)
(***************************************************************************)
EXTENDS Integers, Sequences, FiniteSets, TLC

VARIABLES uploaded_file, measurements, shown, fig, zip_buffer, ret

vars == <<uploaded_file, measurements, shown, fig, zip_buffer, ret>>

(* ---------------------------- bounds ---------------------------------- *)

\* a modelled record departs from the sample record in at most this many keys
MaxChanged == 2

(* ---------------------------- numbers --------------------------------- *)

Scale == 16 * 9 * 5

PyInt(n) == [v |-> n * Scale, fl |-> FALSE]

\* the float literal n/d
PyLit(n, d) == [v |-> (n * Scale) \div d, fl |-> TRUE]

\* a / b : true division, always a float
PyDiv(a, b) == [v |-> (a.v * Scale) \div b.v, fl |-> TRUE]

PyMul(a, b) == [v |-> (a.v * b.v) \div Scale, fl |-> a.fl \/ b.fl]

PyAdd(a, b) == [v |-> a.v + b.v, fl |-> a.fl \/ b.fl]

PySub(a, b) == [v |-> a.v - b.v, fl |-> a.fl \/ b.fl]

PyNeg(a) == [v |-> 0 - a.v, fl |-> a.fl]

\* float(a)
PyFloat(a) == [v |-> a.v, fl |-> TRUE]

Pt(x, y) == <<x, y>>

RECURSIVE SeqMin(_)
SeqMin(s) ==
    IF Len(s) = 1 THEN s[1]
    ELSE LET m == SeqMin(Tail(s)) IN IF m.v < s[1].v THEN m ELSE s[1]

RECURSIVE SeqMax(_)
SeqMax(s) ==
    IF Len(s) = 1 THEN s[1]
    ELSE LET m == SeqMax(Tail(s)) IN IF m.v > s[1].v THEN m ELSE s[1]

(* ------------------------ measurement records ------------------------- *)

Keys == {"chest", "waist", "shoulder_width", "back_length", "sleeve_length",
         "neck_circumference", "armhole_depth", "cuff_circumference",
         "hem_width"}

sample_measurements ==
    [chest |-> PyInt(100), waist |-> PyInt(90), shoulder_width |-> PyInt(46),
     back_length |-> PyInt(75), sleeve_length |-> PyInt(60),
     neck_circumference |-> PyInt(40), armhole_depth |-> PyInt(25),
     cuff_circumference |-> PyInt(20), hem_width |-> PyInt(110)]

\* other values a JSON document may give a key: a smaller int, a larger float
AltValues(k) ==
    {PySub(sample_measurements[k], PyInt(7)),
     PyAdd(sample_measurements[k], PyLit(5, 2))}

\* the records one step from r: one key dropped, or one key given another value
OneChange(r) ==
    {[k \in DOMAIN r \ {d} |-> r[k]] : d \in DOMAIN r}
    \cup UNION {{[r EXCEPT ![k] = a] : a \in AltValues(k)} : k \in DOMAIN r}

\* the JSON objects that depart from the sample record in at most n keys, a
\* departing key being absent or holding another value
RECURSIVE RecordsWithin(_)
RecordsWithin(n) ==
    IF n = 0 THEN {sample_measurements}
    ELSE LET R == RecordsWithin(n - 1) IN R \cup UNION {OneChange(r) : r \in R}

\* the JSON objects the model draws from
Records == RecordsWithin(MaxChanged)

\* the data model's "valid" record: every required key, every value positive
Valid(m) == DOMAIN m = Keys /\ \A k \in Keys : m[k].v > 0

(* ------------------------------ errors -------------------------------- *)

\* measurements[k] on a dict without k raises KeyError(k); str(e) is 'k'
KeyError(k) == [ok |-> FALSE, exc |-> "KeyError", msg |-> "'" \o k \o "'"]

\* the first key of the read order reads that the dict lacks, or "" if none
RECURSIVE FirstMissing(_, _)
FirstMissing(reads, m) ==
    IF reads = <<>> THEN ""
    ELSE IF Head(reads) \notin DOMAIN m THEN Head(reads)
    ELSE FirstMissing(Tail(reads), m)

(* ------------------------------- paths -------------------------------- *)

\* matplotlib.path.Path(vertices, codes): the two parallel lists
Path(vertices, codes) == [vertices |-> vertices, codes |-> codes]

\* Path(vertices) without codes: a MOVETO followed by LINETOs
PathNoCodes(vertices) ==
    [vertices |-> vertices,
     codes |-> [i \in 1..Len(vertices) |-> IF i = 1 THEN "MOVETO" ELSE "LINETO"]]

\* Path.make_compound_path(a, b): the vertices and the codes concatenated
make_compound_path(a, b) ==
    [vertices |-> a.vertices \o b.vertices, codes |-> a.codes \o b.codes]

\* the segments a path draws, as matplotlib reads the codes: MOVETO starts
\* at its vertex, LINETO draws a line to its vertex, CURVE3 takes two
\* vertices (control point, end point), CURVE4 three (two control points,
\* end point), CLOSEPOLY draws a line back to the start
RECURSIVE segments_from(_, _, _, _)
segments_from(path, i, cur, start) ==
    IF i > Len(path.codes) THEN <<>>
    ELSE LET c == path.codes[i]
             v == path.vertices
         IN CASE c = "MOVETO" -> segments_from(path, i + 1, v[i], v[i])
              [] c = "LINETO" ->
                   << [kind |-> "line", from |-> cur, ctrl |-> <<>>, to |-> v[i]] >>
                   \o segments_from(path, i + 1, v[i], start)
              [] c = "CURVE3" ->
                   << [kind |-> "quad", from |-> cur, ctrl |-> <<v[i]>>,
                       to |-> v[i + 1]] >>
                   \o segments_from(path, i + 2, v[i + 1], start)
              [] c = "CURVE4" ->
                   << [kind |-> "cubic", from |-> cur, ctrl |-> <<v[i], v[i + 1]>>,
                       to |-> v[i + 2]] >>
                   \o segments_from(path, i + 3, v[i + 2], start)
              [] OTHER ->
                   << [kind |-> "line", from |-> cur, ctrl |-> <<>>, to |-> start] >>
                   \o segments_from(path, i + 1, start, start)

path_segments(path) == segments_from(path, 1, path.vertices[1], path.vertices[1])

(* --------------------------- front panel ------------------------------ *)

\* the keys generate_front_panel reads, in the order it reads them
front_reads ==
    <<"chest", "shoulder_width", "back_length", "neck_circumference",
      "neck_circumference", "armhole_depth", "waist", "hem_width">>

front_chest(m) == PyAdd(PyDiv(m["chest"], PyInt(2)), PyInt(5))

front_neck_width(m) == PyDiv(m["neck_circumference"], PyInt(6))

front_neck_depth(m) == PyAdd(PyDiv(m["neck_circumference"], PyInt(12)), PyInt(2))

front_hem(m) == PyDiv(m["hem_width"], PyInt(2))

\* mutant: the hem corner put at the hem half-width itself
front_panel_points_hem(chest, shoulder, length, neck_width, neck_depth, armhole, hem) ==
    << Pt(PyInt(0), PyInt(0)),
       Pt(shoulder, PyInt(0)),
       Pt(chest, armhole),
       Pt(chest, PyMul(length, PyLit(4, 10))),
       Pt(hem, length),
       Pt(PyInt(0), length),
       Pt(PyInt(0), armhole),
       Pt(neck_width, neck_depth) >>

front_panel_points(chest, shoulder, length, neck_width, neck_depth, armhole, hem) ==
    << Pt(PyInt(0), PyInt(0)),
       Pt(shoulder, PyInt(0)),
       Pt(chest, armhole),
       Pt(chest, PyMul(length, PyLit(4, 10))),
       Pt(PyAdd(PyDiv(hem, PyInt(2)), PyDiv(chest, PyInt(2))), length),
       Pt(PyInt(0), length),
       Pt(PyInt(0), armhole),
       Pt(neck_width, neck_depth) >>

\* mutant: the neckline drawn with straight lines
front_panel_codes_straight ==
    <<"MOVETO", "LINETO", "LINETO", "LINETO", "LINETO", "LINETO", "LINETO",
      "LINETO", "LINETO">>

front_panel_codes ==
    <<"MOVETO", "LINETO", "LINETO", "LINETO", "LINETO", "LINETO", "LINETO",
      "CURVE3", "CURVE3">>

generate_front_panel(m) ==
    LET miss == FirstMissing(front_reads, m) IN
    IF miss # "" THEN KeyError(miss)
    ELSE
      LET chest == front_chest(m)
          shoulder == PyDiv(m["shoulder_width"], PyInt(2))
          length == m["back_length"]
          neck_width == front_neck_width(m)
          neck_depth == front_neck_depth(m)
          armhole == m["armhole_depth"]
          waist == PyAdd(PyDiv(m["waist"], PyInt(2)), PyInt(3))
          hem == front_hem(m)
          points == front_panel_points(chest, shoulder, length, neck_width,
                                       neck_depth, armhole, hem)
      IN [ok |-> TRUE,
          path |-> Path(points \o <<points[1]>>, front_panel_codes),
          points |-> points]

(* ---------------------------- back panel ------------------------------ *)

back_reads ==
    <<"chest", "shoulder_width", "back_length", "neck_circumference",
      "neck_circumference", "armhole_depth", "waist", "hem_width">>

back_panel_points(chest, shoulder, length, neck_width, neck_depth, armhole, hem) ==
    << Pt(PyInt(0), PyInt(0)),
       Pt(shoulder, PyInt(0)),
       Pt(chest, armhole),
       Pt(chest, PyMul(length, PyLit(4, 10))),
       Pt(PyAdd(PyDiv(hem, PyInt(2)), PyDiv(chest, PyInt(2))), length),
       Pt(PyInt(0), length),
       Pt(PyInt(0), armhole),
       Pt(neck_width, neck_depth) >>

back_panel_codes ==
    <<"MOVETO", "LINETO", "LINETO", "LINETO", "LINETO", "LINETO", "LINETO",
      "CURVE3", "CURVE3">>

generate_back_panel(m) ==
    LET miss == FirstMissing(back_reads, m) IN
    IF miss # "" THEN KeyError(miss)
    ELSE
      LET chest == PyAdd(PyDiv(m["chest"], PyInt(2)), PyInt(3))
          shoulder == PyDiv(m["shoulder_width"], PyInt(2))
          length == m["back_length"]
          neck_width == PyDiv(m["neck_circumference"], PyInt(6))
          neck_depth == PyDiv(m["neck_circumference"], PyInt(24))
          armhole == m["armhole_depth"]
          waist == PyAdd(PyDiv(m["waist"], PyInt(2)), PyInt(2))
          hem == PyDiv(m["hem_width"], PyInt(2))
          points == back_panel_points(chest, shoulder, length, neck_width,
                                      neck_depth, armhole, hem)
      IN [ok |-> TRUE,
          path |-> Path(points \o <<points[1]>>, back_panel_codes),
          points |-> points]

(* ------------------------------ sleeve -------------------------------- *)

\* mutant: the sleeve builder also reads the neck measurement
sleeve_reads_neck ==
    <<"sleeve_length", "armhole_depth", "neck_circumference", "cuff_circumference">>

sleeve_reads == <<"sleeve_length", "armhole_depth", "cuff_circumference">>

sleeve_points(sleeve_width, cap_height, sleeve_length) ==
    << Pt(PyInt(0), PyInt(0)),
       Pt(PyDiv(sleeve_width, PyInt(2)), cap_height),
       Pt(PyDiv(sleeve_width, PyInt(3)), sleeve_length),
       Pt(PyDiv(PyNeg(sleeve_width), PyInt(3)), sleeve_length),
       Pt(PyDiv(PyNeg(sleeve_width), PyInt(2)), cap_height) >>

sleeve_codes ==
    <<"MOVETO", "CURVE4", "CURVE4", "CURVE4", "LINETO", "LINETO", "LINETO",
      "CURVE4", "CURVE4", "CURVE4">>

\* mutant: the two left control points listed in the order of the right ones
sleeve_control_points_skewed(points, sleeve_width, cap_height) ==
    << points[1],
       Pt(PyDiv(sleeve_width, PyInt(4)), PyDiv(cap_height, PyInt(3))),
       Pt(PyDiv(sleeve_width, PyInt(2)), PyDiv(cap_height, PyLit(3, 2))),
       points[2],
       points[3],
       points[4],
       points[5],
       Pt(PyDiv(PyNeg(sleeve_width), PyInt(4)), PyDiv(cap_height, PyInt(3))),
       Pt(PyDiv(PyNeg(sleeve_width), PyInt(2)), PyDiv(cap_height, PyLit(3, 2))),
       points[1] >>

sleeve_control_points(points, sleeve_width, cap_height) ==
    << points[1],
       Pt(PyDiv(sleeve_width, PyInt(4)), PyDiv(cap_height, PyInt(3))),
       Pt(PyDiv(sleeve_width, PyInt(2)), PyDiv(cap_height, PyLit(3, 2))),
       points[2],
       points[3],
       points[4],
       points[5],
       Pt(PyDiv(PyNeg(sleeve_width), PyInt(2)), PyDiv(cap_height, PyLit(3, 2))),
       Pt(PyDiv(PyNeg(sleeve_width), PyInt(4)), PyDiv(cap_height, PyInt(3))),
       points[1] >>

generate_sleeve(m) ==
    LET miss == FirstMissing(sleeve_reads, m) IN
    IF miss # "" THEN KeyError(miss)
    ELSE
      LET sleeve_length == m["sleeve_length"]
          armhole == PyMul(m["armhole_depth"], PyInt(2))
          cuff == PyAdd(m["cuff_circumference"], PyInt(2))
          cap_height == PyDiv(armhole, PyInt(3))
          sleeve_width == PyAdd(PyDiv(armhole, PyInt(2)), PyInt(5))
          points == sleeve_points(sleeve_width, cap_height, sleeve_length)
          control_points == sleeve_control_points(points, sleeve_width, cap_height)
      IN [ok |-> TRUE,
          path |-> Path(control_points, sleeve_codes),
          points |-> points]

(* ------------------------------ collar -------------------------------- *)

collar_reads == <<"neck_circumference">>

\* mutant: the top left corner left out
collar_points_dropped(collar_length, collar_width) ==
    << Pt(PyInt(0), PyInt(0)),
       Pt(collar_length, PyInt(0)),
       Pt(collar_length, collar_width) >>

collar_points(collar_length, collar_width) ==
    << Pt(PyInt(0), PyInt(0)),
       Pt(collar_length, PyInt(0)),
       Pt(collar_length, collar_width),
       Pt(PyInt(0), collar_width) >>

collar_codes == <<"MOVETO", "LINETO", "LINETO", "LINETO", "CLOSEPOLY">>

generate_collar(m) ==
    LET miss == FirstMissing(collar_reads, m) IN
    IF miss # "" THEN KeyError(miss)
    ELSE
      LET neck == m["neck_circumference"]
          collar_length == PyAdd(neck, PyInt(2))
          collar_width == PyInt(5)
          points == collar_points(collar_length, collar_width)
      IN [ok |-> TRUE,
          path |-> Path(points \o <<Pt(PyInt(0), PyInt(0))>>, collar_codes),
          points |-> points]

(* ------------------------------- cuff --------------------------------- *)

cuff_reads == <<"cuff_circumference">>

cuff_points(cuff_length, cuff_width) ==
    << Pt(PyInt(0), PyInt(0)),
       Pt(cuff_length, PyInt(0)),
       Pt(cuff_length, cuff_width),
       Pt(PyInt(0), cuff_width) >>

cuff_codes == <<"MOVETO", "LINETO", "LINETO", "LINETO", "CLOSEPOLY">>

generate_cuff(m) ==
    LET miss == FirstMissing(cuff_reads, m) IN
    IF miss # "" THEN KeyError(miss)
    ELSE
      LET cuff_circumference == m["cuff_circumference"]
          cuff_length == PyAdd(cuff_circumference, PyInt(2))
          cuff_width == PyInt(6)
          points == cuff_points(cuff_length, cuff_width)
      IN [ok |-> TRUE,
          path |-> Path(points \o <<Pt(PyInt(0), PyInt(0))>>, cuff_codes),
          points |-> points]

(* --------------------------- plot_pattern ----------------------------- *)

\* the vertices of the seam-allowance outline: the enumerate() over points
\* with its i != len(points) - 1 test, then the appended closing vertex
seam_vertices(points, seam_allowance) ==
    [i \in 1..Len(points) |->
        Pt(IF i - 1 # Len(points) - 1
             THEN PyAdd(points[i][1], seam_allowance) ELSE points[i][1],
           IF i - 1 # Len(points) - 1
             THEN PyAdd(points[i][2], seam_allowance) ELSE points[i][2])]
    \o << Pt(PyAdd(points[1][1], seam_allowance),
             PyAdd(points[1][2], seam_allowance)) >>

\* what plot_pattern puts on its axis
plot_pattern(path, points, title) ==
    LET xs == [i \in 1..Len(points) |-> points[i][1]]
        ys == [i \in 1..Len(points) |-> points[i][2]]
        seam_allowance == PyLit(3, 2)
        seam == PathNoCodes(seam_vertices(points, seam_allowance))
    IN [patch |-> path,
        markers |-> [i \in 1..Len(points) |-> [xy |-> points[i], text |-> i - 1]],
        xlim |-> <<PySub(SeqMin(xs), PyInt(5)), PyAdd(SeqMax(xs), PyInt(5))>>,
        ylim |-> <<PySub(SeqMin(ys), PyInt(5)), PyAdd(SeqMax(ys), PyInt(5))>>,
        title |-> title,
        seam |-> seam,
        seam_path |-> make_compound_path(seam, path)]

(* ----------------------- generate_all_patterns ------------------------ *)

pattern_key ==
    <<"Pattern Key:", "Red dots: Key points", "Solid line: Cut line",
      "Dashed gray area: 1.5cm seam allowance">>

\* mutant: the cuff left out of the piece list
pattern_list_short(front_points, back_points, sleeve_pts, collar_pts, cuff_pts) ==
    << [name |-> "front_panel", points |-> front_points],
       [name |-> "back_panel", points |-> back_points],
       [name |-> "sleeve", points |-> sleeve_pts],
       [name |-> "collar", points |-> collar_pts] >>

\* the piece list generate_all_patterns returns next to the figure
pattern_list(front_points, back_points, sleeve_pts, collar_pts, cuff_pts) ==
    << [name |-> "front_panel", points |-> front_points],
       [name |-> "back_panel", points |-> back_points],
       [name |-> "sleeve", points |-> sleeve_pts],
       [name |-> "collar", points |-> collar_pts],
       [name |-> "cuff", points |-> cuff_pts] >>

\* the body of generate_all_patterns over the five builders' outcomes: they
\* run in order and the first exception ends the call
all_patterns(front, back, sleeve, collar, cuff) ==
       IF ~front.ok THEN front
       ELSE IF ~back.ok THEN back
       ELSE IF ~sleeve.ok THEN sleeve
       ELSE IF ~collar.ok THEN collar
       ELSE IF ~cuff.ok THEN cuff
       ELSE [ok |-> TRUE,
             fig |-> [axs |-> << plot_pattern(front.path, front.points, "Front Panel"),
                                 plot_pattern(back.path, back.points, "Back Panel"),
                                 plot_pattern(sleeve.path, sleeve.points, "Sleeve"),
                                 plot_pattern(collar.path, collar.points, "Collar"),
                                 plot_pattern(cuff.path, cuff.points, "Cuff") >>,
                      key |-> pattern_key],
             pattern_data |-> pattern_list(front.points, back.points,
                                           sleeve.points, collar.points,
                                           cuff.points)]

generate_all_patterns(m) ==
    all_patterns(generate_front_panel(m), generate_back_panel(m),
                 generate_sleeve(m), generate_collar(m), generate_cuff(m))

(* ------------------------------- DXF ---------------------------------- *)

\* str.upper() on the piece names
upper(name) ==
    CASE name = "front_panel" -> "FRONT_PANEL"
      [] name = "back_panel" -> "BACK_PANEL"
      [] name = "sleeve" -> "SLEEVE"
      [] name = "collar" -> "COLLAR"
      [] name = "cuff" -> "CUFF"
      [] OTHER -> name

dxf_layers ==
    << [name |-> "PATTERN_OUTLINE", color |-> 1],
       [name |-> "POINTS", color |-> 5],
       [name |-> "TEXT", color |-> 3] >>

\* the closed LWPOLYLINE over the points
dxf_polyline(points) ==
    [type |-> "LWPOLYLINE", points |-> points, closed |-> TRUE,
     layer |-> "PATTERN_OUTLINE", color |-> 1]

\* mutant: the labels numbered from 1
dxf_point_entities_from1(i, xy) ==
    << [type |-> "CIRCLE", center |-> xy, radius |-> PyLit(1, 2),
        layer |-> "POINTS", color |-> 5],
       [type |-> "TEXT", text |-> <<"P", i + 1>>, height |-> PyLit(8, 10),
        layer |-> "TEXT", color |-> 3,
        insert |-> Pt(PyAdd(xy[1], PyLit(6, 10)), PyAdd(xy[2], PyLit(6, 10)))] >>

\* one pass of the loop over enumerate(points): the marker and its label
dxf_point_entities(i, xy) ==
    << [type |-> "CIRCLE", center |-> xy, radius |-> PyLit(1, 2),
        layer |-> "POINTS", color |-> 5],
       [type |-> "TEXT", text |-> <<"P", i>>, height |-> PyLit(8, 10),
        layer |-> "TEXT", color |-> 3,
        insert |-> Pt(PyAdd(xy[1], PyLit(6, 10)), PyAdd(xy[2], PyLit(6, 10)))] >>

RECURSIVE dxf_points_loop(_, _)
dxf_points_loop(points, i) ==
    IF i >= Len(points) THEN <<>>
    ELSE dxf_point_entities(i, points[i + 1]) \o dxf_points_loop(points, i + 1)

\* the document generate_dxf_from_points writes out: layers and modelspace
generate_dxf_from_points(points, filename) ==
    LET ys == [i \in 1..Len(points) |-> points[i][2]] IN
    [layers |-> dxf_layers,
     msp |-> <<dxf_polyline(points)>>
             \o dxf_points_loop(points, 0)
             \o << [type |-> "TEXT", text |-> upper(filename) \o " PATTERN",
                     height |-> PyLit(2, 1), layer |-> "TEXT", color |-> 2,
                     insert |-> Pt(points[1][1], PyAdd(SeqMax(ys), PyInt(5)))],
                    [type |-> "TEXT", text |-> "NOTE: ADD 1.5cm SEAM ALLOWANCE",
                     height |-> PyLit(1, 1), layer |-> "TEXT", color |-> 2,
                     insert |-> Pt(points[1][1], PySub(SeqMin(ys), PyInt(5)))] >>]

\* clean_points: every coordinate through float()
clean_points(points) ==
    [i \in 1..Len(points) |-> Pt(PyFloat(points[i][1]), PyFloat(points[i][2]))]

\* the loop of create_dxf_zip: one writestr per pattern, in list order
RECURSIVE zip_entries(_)
zip_entries(patterns) ==
    IF patterns = <<>> THEN <<>>
    ELSE << [filename |-> Head(patterns).name \o ".dxf",
             data |-> generate_dxf_from_points(clean_points(Head(patterns).points),
                                               Head(patterns).name)] >>
         \o zip_entries(Tail(patterns))

\* lib_raises: a call into ezdxf or zipfile raises; the exception leaves
\* create_dxf_zip and no buffer is returned
create_dxf_zip(patterns, lib_raises) ==
    IF lib_raises
      THEN [ok |-> FALSE, exc |-> "Exception", msg |-> "DXF export failed"]
      ELSE [ok |-> TRUE, zip_buffer |-> zip_entries(patterns)]

(* ------------------------- the Streamlit script ----------------------- *)

\* what st.file_uploader returns: None, or an uploaded .json file that is
\* either not parseable or holds a JSON object
NoFile == [kind |-> "none"]

Malformed == [kind |-> "malformed"]

JsonFile(content) == [kind |-> "json", content |-> content]

Files == {Malformed} \cup {JsonFile(r) : r \in Records}

json_load(file) ==
    IF file.kind = "json"
      THEN [ok |-> TRUE, value |-> file.content]
      ELSE [ok |-> FALSE, exc |-> "JSONDecodeError",
            msg |-> "Expecting value: line 1 column 1 (char 0)"]

page_header ==
    << <<"title", "2D Shirt Pattern Generator">>,
       <<"write", "Upload JSON measurements to generate shirt cutting patterns.">>,
       <<"subheader", "Upload Measurements">> >>

page_footer ==
    << <<"markdown", "---">>, <<"markdown", "Shirt Pattern Generator">> >>

\* mutant: keys the uploaded object lacks filled in from the sample record
load_measurements_defaults(file) ==
    IF file.kind # "none"
      THEN LET parsed == json_load(file) IN
           IF parsed.ok
             THEN [measurements |->
                      [k \in Keys |-> IF k \in DOMAIN parsed.value
                                        THEN parsed.value[k]
                                        ELSE sample_measurements[k]],
                   shown |-> << <<"success", "Measurements loaded successfully!">> >>]
             ELSE [measurements |-> sample_measurements,
                   shown |-> << <<"error", "Error loading JSON: " \o parsed.msg>> >>]
      ELSE [measurements |-> sample_measurements,
            shown |-> << <<"info", "Using default measurements. Upload a JSON file to use custom measurements.">> >>]

\* the upload handling: the record the run works with and what it reports
load_measurements(file) ==
    IF file.kind # "none"
      THEN LET parsed == json_load(file) IN
           IF parsed.ok
             THEN [measurements |-> parsed.value,
                   shown |-> << <<"success", "Measurements loaded successfully!">> >>]
             ELSE [measurements |-> sample_measurements,
                   shown |-> << <<"error", "Error loading JSON: " \o parsed.msg>> >>]
      ELSE [measurements |-> sample_measurements,
            shown |-> << <<"info", "Using default measurements. Upload a JSON file to use custom measurements.">> >>]

generation_errors(e) ==
    << <<"error", "Error generating patterns: " \o e.msg>>,
       <<"error", "Please check if your measurements are valid.">> >>

handler_head == << <<"subheader", "Shirt Pattern Pieces">> >>

handler_chart == << <<"pyplot", "fig">> >>

\* the end of the try block, the figure being on the page: the download
\* button if create_dxf_zip returned, the except clause if it raised
handler_export(gen, zip) ==
    IF ~zip.ok
      THEN [shown |-> handler_head \o handler_chart \o generation_errors(zip),
            fig |-> gen.fig, zip_buffer |-> <<>>]
      ELSE [shown |-> handler_head \o handler_chart
                      \o << <<"download_button", "Download DXF Patterns">> >>,
            fig |-> gen.fig, zip_buffer |-> zip.zip_buffer]

\* the try block from the outcome of generate_all_patterns on
handler_try(gen, lib_raises) ==
    IF ~gen.ok
      THEN [shown |-> handler_head \o generation_errors(gen),
            fig |-> <<>>, zip_buffer |-> <<>>]
      ELSE handler_export(gen, create_dxf_zip(gen.pattern_data, lib_raises))

\* the body of `if st.button("Generate Patterns")`: what it shows, in order,
\* the figure given to st.pyplot and the buffer given to st.download_button
generate_handler(m, lib_raises) ==
    handler_try(generate_all_patterns(m), lib_raises)

\* what a run leaves: the record, the page, the figure and the archive
script_result(up, h) ==
    [measurements |-> up.measurements,
     shown |-> page_header \o up.shown \o h.shown \o page_footer,
     fig |-> h.fig,
     zip_buffer |-> h.zip_buffer]

script_body(up, clicked, lib_raises) ==
    script_result(up,
                  IF clicked THEN generate_handler(up.measurements, lib_raises)
                  ELSE [shown |-> <<>>, fig |-> <<>>, zip_buffer |-> <<>>])

\* one run of the script, top to bottom
run_script(file, clicked, lib_raises) ==
    script_body(load_measurements(file), clicked, lib_raises)

NoCall == [fn |-> "none", out |-> [ok |-> FALSE]]

SetRun(file, r) ==
    /\ uploaded_file' = file
    /\ measurements' = r.measurements
    /\ shown' = r.shown
    /\ fig' = r.fig
    /\ zip_buffer' = r.zip_buffer
    /\ UNCHANGED ret

\* the first run of the script: nothing uploaded, nothing clicked
FirstRun(r) ==
    /\ uploaded_file = NoFile
    /\ measurements = r.measurements
    /\ shown = r.shown
    /\ fig = r.fig
    /\ zip_buffer = r.zip_buffer
    /\ ret = NoCall

Init == FirstRun(run_script(NoFile, FALSE, FALSE))

\* the user picks a file in the uploader: the script reruns
UploadFile ==
    \E f \in Files :
        /\ f # uploaded_file
        /\ SetRun(f, run_script(f, FALSE, FALSE))

\* the user removes the file from the uploader: the script reruns
RemoveFile ==
    /\ uploaded_file # NoFile
    /\ SetRun(NoFile, run_script(NoFile, FALSE, FALSE))

\* the user clicks "Generate Patterns": the script reruns with the button set
ClickGenerate ==
    \E lib_raises \in BOOLEAN :
        SetRun(uploaded_file, run_script(uploaded_file, TRUE, lib_raises))

Next == UploadFile \/ RemoveFile \/ ClickGenerate

Spec == Init /\ [][Next]_vars

(* ---------------- the builders called on their own -------------------- *)

BuilderInit ==
    /\ measurements \in Records
    /\ uploaded_file = JsonFile(measurements)
    /\ shown = <<>>
    /\ fig = <<>>
    /\ zip_buffer = <<>>
    /\ ret = NoCall

Call(fn, out) ==
    /\ ret' = [fn |-> fn, out |-> out]
    /\ UNCHANGED <<uploaded_file, measurements, shown, fig, zip_buffer>>

CallFrontPanel == Call("generate_front_panel", generate_front_panel(measurements))

CallBackPanel == Call("generate_back_panel", generate_back_panel(measurements))

CallSleeve == Call("generate_sleeve", generate_sleeve(measurements))

CallCollar == Call("generate_collar", generate_collar(measurements))

CallCuff == Call("generate_cuff", generate_cuff(measurements))

BuilderNext ==
    CallFrontPanel \/ CallBackPanel \/ CallSleeve \/ CallCollar \/ CallCuff

BuilderSpec == BuilderInit /\ [][BuilderNext]_vars

(* ============================== claims ================================ *)

PtV(p) == <<p[1].v, p[2].v>>

Shown(kind) == \E i \in DOMAIN shown : shown[i][1] = kind

ErrorReported ==
    \E i \in DOMAIN shown :
        shown[i] = <<"error", "Please check if your measurements are valid.">>

\* the labeled points an axis of the figure was drawn from
AxisPoints(ax) == [i \in DOMAIN ax.markers |-> ax.markers[i].xy]

\* C1: on a valid record every builder returns its fixed number of labeled
\* points: front and back panel 8, sleeve 5, collar and cuff 4.
C1_PointCounts ==
    (Valid(measurements) /\ ret.fn # "none") =>
        /\ ret.out.ok
        /\ Len(ret.out.points) =
             CASE ret.fn = "generate_front_panel" -> 8
               [] ret.fn = "generate_back_panel" -> 8
               [] ret.fn = "generate_sleeve" -> 5
               [] OTHER -> 4

C1_Witness ==
    /\ Valid(measurements)
    /\ measurements # sample_measurements
    /\ ret.fn = "generate_collar"
    /\ ret.out.ok
    /\ Len(ret.out.points) = 4

LacksNeck(m) == DOMAIN m = Keys \ {"neck_circumference"}

\* C3: on a record that lacks only neck_circumference the collar, front and
\* back builders end in a KeyError and return no outline, while the sleeve
\* and cuff builders return theirs.
C3_MissingNeck ==
    LacksNeck(measurements) =>
        /\ ret.fn \in {"generate_collar", "generate_front_panel",
                       "generate_back_panel"} =>
              /\ ~ret.out.ok
              /\ ret.out.exc = "KeyError"
              /\ ret.out.msg = "'neck_circumference'"
              /\ "points" \notin DOMAIN ret.out
        /\ ret.fn = "generate_sleeve" =>
              ret.out.ok /\ Len(ret.out.points) = 5
        /\ ret.fn = "generate_cuff" =>
              ret.out.ok /\ Len(ret.out.points) = 4

C3_Witness ==
    /\ LacksNeck(measurements)
    /\ ret.fn = "generate_sleeve"
    /\ ret.out.ok

Mirror(a, b) == a[1].v = 0 - b[1].v /\ a[2].v = b[2].v

\* C6: the sleeve is mirror-symmetric about x = 0: the left cap control
\* points, in reverse path order, mirror the right ones, and the left
\* underarm and cuff anchors mirror the right ones.
C6_SleeveSymmetric ==
    (Valid(measurements) /\ ret.fn = "generate_sleeve") =>
        /\ ret.out.ok
        /\ LET v == ret.out.path.vertices
               p == ret.out.points
           IN /\ Len(v) = 10
              /\ p[1][1].v = 0
              /\ Mirror(v[9], v[2])
              /\ Mirror(v[8], v[3])
              /\ Mirror(p[5], p[2])
              /\ Mirror(p[4], p[3])
              /\ v[2][1].v > 0 /\ v[3][1].v > 0

C6_Witness ==
    /\ Valid(measurements)
    /\ measurements["armhole_depth"] # sample_measurements["armhole_depth"]
    /\ ret.fn = "generate_sleeve"
    /\ ret.out.ok
    /\ Mirror(ret.out.path.vertices[8], ret.out.path.vertices[3])

IsPanel == ret.fn \in {"generate_front_panel", "generate_back_panel"} /\ ret.out.ok

Line(a, b) == [kind |-> "line", from |-> a, ctrl |-> <<>>, to |-> b]

\* C9 as stated: the neckline is a quadratic curve from point 7 to point 0,
\* the only curved segment, and 0-1, ..., 5-6, 6-7 are straight lines.
C9_Original ==
    IsPanel =>
        LET p == ret.out.points
            segs == path_segments(ret.out.path)
            curved == {i \in DOMAIN segs : segs[i].kind # "line"}
        IN /\ \A i \in 1..7 : \E j \in DOMAIN segs : segs[j] = Line(p[i], p[i + 1])
           /\ Cardinality(curved) = 1
           /\ \A i \in curved :
                 /\ segs[i].kind = "quad"
                 /\ segs[i].from = p[8]
                 /\ segs[i].to = p[1]
                 /\ Len(segs[i].ctrl) = 1
           /\ segs[Len(segs)].to = p[1]

\* C9 (amended): in the front and back panel paths the only curved segment
\* is a quadratic curve from point 6 to point 0 whose one control point is
\* point 7; 0-1, ..., 5-6 are straight lines, no segment joins 6 to 7, and
\* the path ends on point 0.
C9_Neckline ==
    IsPanel =>
        LET p == ret.out.points
            segs == path_segments(ret.out.path)
        IN /\ Len(segs) = 7
           /\ \A i \in 1..6 : segs[i] = Line(p[i], p[i + 1])
           /\ segs[7] = [kind |-> "quad", from |-> p[7], ctrl |-> <<p[8]>>,
                         to |-> p[1]]

C9_Witness ==
    /\ ret.fn = "generate_back_panel"
    /\ ret.out.ok
    /\ path_segments(ret.out.path)[7].kind = "quad"
    /\ path_segments(ret.out.path)[7].ctrl = <<ret.out.points[8]>>

\* what C10 says of every record: half-chest chest/2 + 5 (x of point 2),
\* neck width neck/6 and neck depth neck/12 + 2 (point 7); and of the sample
\* record: 55, 40/6, 40/12 + 2, collar 42 by 5
C10_Common ==
    /\ (ret.fn = "generate_front_panel" /\ ret.out.ok) =>
          LET p == ret.out.points
              m == measurements
          IN /\ 2 * p[3][1].v = m["chest"].v + 10 * Scale
             /\ 6 * p[8][1].v = m["neck_circumference"].v
             /\ 12 * p[8][2].v = m["neck_circumference"].v + 24 * Scale
             /\ m = sample_measurements =>
                   /\ p[3][1].v = 55 * Scale
                   /\ 6 * p[8][1].v = 40 * Scale
                   /\ 12 * (p[8][2].v - 2 * Scale) = 40 * Scale
    /\ (ret.fn = "generate_collar" /\ measurements = sample_measurements) =>
          /\ ret.out.ok
          /\ [i \in 1..4 |-> PtV(ret.out.points[i])] =
               << <<0, 0>>, <<42 * Scale, 0>>, <<42 * Scale, 5 * Scale>>,
                  <<0, 5 * Scale>> >>

\* C10 as stated: the above, and point 4 of the front panel lies at x equal
\* to the hem half-width hem_width/2.
C10_Original ==
    /\ C10_Common
    /\ (ret.fn = "generate_front_panel" /\ ret.out.ok) =>
          2 * ret.out.points[5][1].v = measurements["hem_width"].v

\* C10 (amended): the front panel uses chest/2 + 5, neck/6, neck/12 + 2 and
\* hem_width/2, with the sample values 55, 40/6, 40/12 + 2, 55 and collar
\* 42 by 5; point 4 lies at x = (hem_width/2)/2 + (chest/2 + 5)/2, which is
\* the hem half-width when that equals the eased half-chest (as in the sample).
C10_Derived ==
    /\ C10_Common
    /\ (ret.fn = "generate_front_panel" /\ ret.out.ok) =>
          /\ 4 * ret.out.points[5][1].v =
                measurements["hem_width"].v + measurements["chest"].v + 10 * Scale
          /\ measurements = sample_measurements =>
                ret.out.points[5][1].v = 55 * Scale

C10_Witness ==
    /\ ret.fn = "generate_front_panel"
    /\ ret.out.ok
    /\ measurements["hem_width"].v # measurements["chest"].v + 10 * Scale
    /\ 2 * ret.out.points[5][1].v # measurements["hem_width"].v

Margin == PyLit(3, 2)

Offset(p) == <<p[1].v + Margin.v, p[2].v + Margin.v>>

\* C2: in the seam-allowance outline of every plotted piece each of the N
\* base points is displaced by (1.5, 1.5), and the appended closing vertex
\* is point 0 displaced by (1.5, 1.5).
C2_AllOffset ==
    Shown("pyplot") =>
        \A a \in DOMAIN fig.axs :
            LET base == AxisPoints(fig.axs[a])
                off == fig.axs[a].seam.vertices
                N == Len(base)
            IN /\ Len(off) = N + 1
               /\ \A i \in 1..N : PtV(off[i]) = Offset(base[i])
               /\ PtV(off[N + 1]) = Offset(base[1])

PieceFiles ==
    <<"front_panel.dxf", "back_panel.dxf", "sleeve.dxf", "collar.dxf", "cuff.dxf">>

\* C4: when the export completes, the archive holds exactly the five
\* entries front_panel.dxf, back_panel.dxf, sleeve.dxf, collar.dxf, cuff.dxf,
\* in that order.
C4_ArchiveEntries ==
    Shown("download_button") =>
        [i \in DOMAIN zip_buffer |-> zip_buffer[i].filename] = PieceFiles

C4_Witness ==
    /\ Shown("download_button")
    /\ uploaded_file.kind = "json"
    /\ measurements # sample_measurements
    /\ Len(zip_buffer) = 5
    /\ zip_buffer[5].filename = "cuff.dxf"

\* C5: when a Generate request reports a generation error, neither the
\* chart nor the download button has been shown in that request.
C5_NoPartialOutput ==
    ErrorReported => (~Shown("pyplot") /\ ~Shown("download_button"))

IsCircle(e) == e.type = "CIRCLE"

IsPointLabel(e) == e.type = "TEXT" /\ e.layer = "TEXT" /\ e.color = 3

IsPolyline(e) == e.type = "LWPOLYLINE"

\* C7: every exported piece is serialized from its labeled points only (the
\* sleeve from its 5 anchors, no cap control point); its document holds one
\* closed polyline over those N points in order, N circles of radius 0.5 on
\* them, and N labels P0..P(N-1), label i at point i plus (0.6, 0.6).
C7_SerializedPoints ==
    Shown("download_button") =>
        /\ Len(zip_buffer) = Len(fig.axs)
        /\ \A k \in DOMAIN zip_buffer :
              LET pts == AxisPoints(fig.axs[k])
                  N == Len(pts)
                  msp == zip_buffer[k].data.msp
                  polys == SelectSeq(msp, IsPolyline)
                  circles == SelectSeq(msp, IsCircle)
                  labels == SelectSeq(msp, IsPointLabel)
              IN /\ Len(polys) = 1
                 /\ polys[1].closed
                 /\ [i \in DOMAIN polys[1].points |-> PtV(polys[1].points[i])]
                      = [i \in 1..N |-> PtV(pts[i])]
                 /\ Len(circles) = N
                 /\ Len(labels) = N
                 /\ \A i \in 1..N :
                       /\ 2 * circles[i].radius.v = Scale
                       /\ PtV(circles[i].center) = PtV(pts[i])
                       /\ labels[i].text = <<"P", i - 1>>
                       /\ 10 * (labels[i].insert[1].v - pts[i][1].v) = 6 * Scale
                       /\ 10 * (labels[i].insert[2].v - pts[i][2].v) = 6 * Scale
        /\ zip_buffer[3].filename = "sleeve.dxf"
        /\ Len(zip_buffer[3].data.msp[1].points) = 5
        /\ \A c \in {2, 3, 8, 9} : \A i \in 1..5 :
              PtV(zip_buffer[3].data.msp[1].points[i])
                # PtV(fig.axs[3].patch.vertices[c])

C7_Witness ==
    /\ Shown("download_button")
    /\ measurements # sample_measurements
    /\ Len(SelectSeq(zip_buffer[3].data.msp, IsCircle)) = 5
    /\ Len(fig.axs[3].patch.vertices) = 10
    /\ Len(SelectSeq(zip_buffer[1].data.msp, IsPointLabel)) = 8

\* C8: the record a run works with is the built-in sample record when no
\* file is uploaded or the file does not parse, and the parsed content,
\* unchanged, when it parses; a Generate run leaves it so.
C8_RecordSource ==
    measurements = IF uploaded_file.kind = "json"
                     THEN uploaded_file.content
                     ELSE sample_measurements

C8_Witness ==
    /\ uploaded_file.kind = "json"
    /\ DOMAIN uploaded_file.content # Keys
    /\ ErrorReported
    /\ measurements = uploaded_file.content

====
